---- MODULE Spec2Model ----
(***************************************************************************)
(* Writer-Reviewer workflow with human-in-the-loop approval                *)
(* (human-in-the-loop.py).                                                 *)
(*                                                                         *)
(* The executors DraftCapture and ReviewCoordinator and the driver loop of *)
(* main() are translated from the source.  The workflow engine they run on *)
(* (message routing along the edges, the state store behind               *)
(* ctx.get_state / ctx.set_state, AgentExecutor, RequestInfoExecutor and   *)
(* the event stream) is an external library; it is modelled by its         *)
(* interface: one state dictionary per run, messages delivered one handler *)
(* at a time, a request registered under a fresh id until it is answered.  *)
(*                                                                         *)
(* Texts are sequences of characters, so that strip(), lower() and the     *)
(* f-string prompts are computed and not assumed.                          *)
(***************************************************************************)
EXTENDS Integers, Sequences, FiniteSets, TLC

\* ------------------------------------------------------------------ bounds
\* Largest number of Writer (Drafter) invocations explored in one run.
MaxRounds == 2

\* ------------------------------------------------------------------- texts
WS == {" ", "\t", "\n"}

RECURSIVE LStrip(_)
LStrip(s) == IF s # <<>> /\ Head(s) \in WS THEN LStrip(Tail(s)) ELSE s

RECURSIVE RStrip(_)
RStrip(s) ==
    IF s # <<>> /\ s[Len(s)] \in WS THEN RStrip(SubSeq(s, 1, Len(s) - 1)) ELSE s

\* str.strip(): drop leading and trailing whitespace.
Strip(s) == RStrip(LStrip(s))

LowerCharAll(c) ==
    CASE c = "A" -> "a" [] c = "P" -> "p" [] c = "R" -> "r" [] c = "O" -> "o"
      [] c = "V" -> "v" [] c = "E" -> "e" [] c = "D" -> "d" [] c = "F" -> "f"
      [] OTHER -> c

LowerCharIdentity(c) == c

LowerChar(c) == LowerCharAll(c)

\* str.lower(): every cased character replaced by its lower-case form.
Lower(s) == [i \in 1..Len(s) |-> LowerChar(s[i])]

\* The contiguous-substring relation ("sub in s" of Python).
Contains(sub, s) ==
    \E i \in 0..(Len(s) - Len(sub)) : SubSeq(s, i + 1, i + Len(sub)) = sub

APPROVE == <<"a", "p", "p", "r", "o", "v", "e">>

\* What the operator may type at the console prompt.
RawInputs ==
    { APPROVE,
      <<" ", "A", "p", "p", "R", "O", "V", "E", "\n">>,
      <<"a", "p", "p", "r", "o", "v", "e", "d">>,
      <<>>,
      <<" ", "\t">>,
      <<"f", "i", "x">> }

\* An agent run response without text (agent_run_response.text is falsy).
NoText == <<"<no text>">>

D1 == <<"d", "1">>
D2 == <<"d", "2">>
K1 == <<"k", "1">>

\* What the Writer agent may answer, and what the Reviewer agent may answer.
WriterTexts == {NoText, D1, D2}
ReviewerTexts == {NoText, K1}

\* "x or ''" for a text attribute.
OrEmpty(t) == IF t = NoText \/ t = <<>> THEN <<>> ELSE t

INITIAL_TASK == <<"task">>

\* The literal parts of the two f-strings.
REVIEW_HEADER == <<"review:">>
REVISE_HEADER == <<"revise:">>
DRAFT_HEADER == <<"previous draft:">>
FEEDBACK_HEADER == <<"reviewer feedback:">>
HUMAN_HEADER == <<"human instruction:">>
REQUEST_PROMPT == <<"confirm the review; 'approve' or instructions">>


\* ------------------------------------------------------------------- state
VARIABLES
    state,              \* the run's state dictionary (ctx.get_state/set_state)
    inflight,           \* messages sent and not yet delivered
    requestEvents,      \* RequestInfoExecutor: request id -> pending request
    nextRequestId,      \* the next fresh request id
    events,             \* events of the stream the driver has not yet read
    running,            \* the current stream has not ended
    pc,                 \* the driver's position in main()
    pending_responses,  \* main(): dict[str, str] | None
    pending_requests,   \* main(): list[tuple[str, HumanReviewRequest]]
    cursor,             \* main(): index of the for loop over pending_requests
    completed,          \* main()
    final_output,       \* main(): str | None
    displayed,          \* what main() printed as the final approved content
    writerCalls,        \* history: prompts the Writer agent was invoked with
    reviewerCalls,      \* history: drafts the Reviewer agent was invoked on
    draftLog,           \* history: drafts stored by capture_draft
    requestLog,         \* history: HumanReviewRequests sent, with their cycle
    decisionLog,        \* history: replies handled by handle_human_decision
    outputs,            \* history: values passed to ctx.yield_output
    phaseLog,           \* history: execution phases the driver started
    typedLog            \* history: the lines typed at the console, untrimmed

vars ==
    << state, inflight, requestEvents, nextRequestId, events, running, pc,
       pending_responses, pending_requests, cursor, completed, final_output,
       displayed, writerCalls, reviewerCalls, draftLog, requestLog,
       decisionLog, outputs, phaseLog, typedLog >>

engineVars == << state, inflight, requestEvents, nextRequestId >>
driverVars ==
    << pc, pending_responses, pending_requests, cursor, completed,
       final_output, displayed, phaseLog, typedLog >>
historyVars ==
    << writerCalls, reviewerCalls, draftLog, requestLog, decisionLog, outputs >>

\* ------------------------------------------------------ python dictionaries
EmptyDict == [k \in {} |-> 0]

\* d.get(k, default)
Get(d, k, default) == IF k \in DOMAIN d THEN d[k] ELSE default

\* {**d, k: v}
Put(d, k, v) == [x \in (DOMAIN d) \cup {k} |-> IF x = k THEN v ELSE d[x]]

\* Optional values: None, or a value.
None == [none |-> TRUE, value |-> EmptyDict]
Some(v) == [none |-> FALSE, value |-> v]

\* Truthiness of pending_responses (None and the empty dict are falsy) and
\* of final_output (None and the empty string are falsy).
TruthyDictByValue(o) ==
    ~o.none /\ \E id \in DOMAIN o.value : o.value[id] # <<>>

TruthyDict(o) == ~o.none /\ DOMAIN o.value # {}

TruthyText(o) == ~o.none /\ o.value # <<>>

\* ---------------------------------------------------------------- messages
\* HumanReviewRequest, with the defaults of the dataclass.
HumanReviewRequest(prompt, draft_content, reviewer_feedback, iteration) ==
    [ prompt |-> prompt, draft_content |-> draft_content,
      reviewer_feedback |-> reviewer_feedback, iteration |-> iteration ]

NoRequest == HumanReviewRequest(<<>>, <<>>, <<>>, 1)

\* A message on an edge.  "about" is history: the draft that a review request,
\* and the critique answering it, is about.
Msg(to, kind, text, about, req, rid) ==
    [ to |-> to, kind |-> kind, text |-> text, about |-> about,
      req |-> req, rid |-> rid ]

Remove(s, i) == SubSeq(s, 1, i - 1) \o SubSeq(s, i + 1, Len(s))

Event(kind, rid, req, text) ==
    [ kind |-> kind, rid |-> rid, req |-> req, text |-> text ]

\* ------------------------------------------------------------ DraftCapture
\* capture_draft: the state written back by set_state.
CapturedStateDropped(st, text) == st

CapturedStateReset(st, text) == [current_draft |-> OrEmpty(text)]

CapturedState(st, text) == Put(st, "current_draft", OrEmpty(text))

\* capture_draft: the review request text sent to the Reviewer.
ReviewRequestText(text) == REVIEW_HEADER \o OrEmpty(text)

\* -------------------------------------------------------- ReviewCoordinator
\* handle_reviewer_response: the iteration assigned to this critique.
RelayIterationStuck(st) == Get(st, "iteration", 0)

RelayIteration(st) == Get(st, "iteration", 0) + 1

\* handle_reviewer_response: the state written back by set_state.
RelayedState(st, text) ==
    [ iteration |-> RelayIteration(st),
      current_draft |-> Get(st, "current_draft", <<>>),
      reviewer_feedback |-> OrEmpty(text) ]

\* handle_reviewer_response: the request sent to the RequestInfoExecutor.
RelayedRequestDefaultDraft(st, text) ==
    HumanReviewRequest(REQUEST_PROMPT, <<>>, OrEmpty(text), RelayIteration(st))

RelayedRequest(st, text) ==
    HumanReviewRequest(REQUEST_PROMPT, Get(st, "current_draft", <<>>),
                       OrEmpty(text), RelayIteration(st))

\* handle_human_decision: human_reply = (feedback.data or "").strip().lower()
NormalizedReply(data) == Lower(Strip(data))

\* handle_human_decision: the test of the approve branch.
IsApprovalExact(data) == data = APPROVE

IsApproval(data) == NormalizedReply(data) = APPROVE

\* handle_human_decision: the value passed to yield_output.
ApprovedOutputWrongKey(st) == Get(st, "reviewer_feedback", <<>>)

ApprovedOutput(st) == Get(st, "current_draft", <<>>)

\* handle_human_decision: revision_prompt.
RevisionPromptNoCritique(st, data) ==
    REVISE_HEADER \o DRAFT_HEADER \o Get(st, "current_draft", <<>>)
        \o HUMAN_HEADER \o data

RevisionPrompt(st, data) ==
    REVISE_HEADER \o DRAFT_HEADER \o Get(st, "current_draft", <<>>)
        \o FEEDBACK_HEADER \o Get(st, "reviewer_feedback", <<>>)
        \o HUMAN_HEADER \o data


\* handle_human_decision: what is yielded (nothing unless approved) ...
DecisionOutputsNone(st, data) == << >>

DecisionOutputs(st, data) ==
    IF IsApproval(data) THEN << ApprovedOutput(st) >> ELSE << >>

\* ... and what is sent on (nothing after the return of the approve branch).
DecisionMessagesNoReturn(st, data) ==
    << Msg("writer", "request", RevisionPrompt(st, data), <<>>, NoRequest, 0) >>

DecisionMessages(st, data) ==
    IF IsApproval(data)
    THEN << >>
    ELSE << Msg("writer", "request", RevisionPrompt(st, data), <<>>,
                NoRequest, 0) >>

\* handle_reviewer_response: the messages sent (one, to the request_info id).
RelayMessagesUntargeted(st, text, about) ==
    << Msg("request_info", "review", <<>>, about, RelayedRequest(st, text), 0),
       Msg("writer", "request", <<>>, <<>>, NoRequest, 0) >>

RelayMessages(st, text, about) ==
    << Msg("request_info", "review", <<>>, about, RelayedRequest(st, text), 0) >>

\* ----------------------------------------------------- RequestInfoExecutor
\* The pending requests after request req was registered under id.
GateAsk(re, id, req) == Put(re, id, req)

\* The pending requests after the request under id was answered.
GateResolve(re, id) == [x \in (DOMAIN re) \ {id} |-> re[x]]

\* The pending requests after the requests under ids were answered.
GateRemainingNone(re, ids) == EmptyDict

GateRemaining(re, ids) == [x \in (DOMAIN re) \ ids |-> re[x]]

\* The ids can be answered: each names a request that is pending.
GateAcceptsAny(re, ids) == TRUE

GateAccepts(re, ids) == ids \subseteq DOMAIN re

\* The RequestResponse messages for the answered ids, in ascending id order.
RECURSIVE GateResponses(_, _, _)
GateResponses(re, responses, ids) ==
    IF ids = {}
    THEN << >>
    ELSE LET id == CHOOSE x \in ids : \A y \in ids : x <= y
         IN  << Msg("review_coordinator", "decision", responses[id], <<>>,
                    Get(re, id, NoRequest), id) >>
                 \o GateResponses(re, responses, ids \ {id})

\* -------------------------------------------------------------------- Init
Init ==
    /\ state = EmptyDict
    /\ inflight = << >>
    /\ requestEvents = EmptyDict
    /\ nextRequestId = 1
    /\ events = << >>
    /\ running = FALSE
    /\ pc = "viz"
    /\ pending_responses = None
    /\ pending_requests = << >>
    /\ cursor = 1
    /\ completed = FALSE
    /\ final_output = None
    /\ displayed = None
    /\ writerCalls = << >>
    /\ reviewerCalls = << >>
    /\ draftLog = << >>
    /\ requestLog = << >>
    /\ decisionLog = << >>
    /\ outputs = << >>
    /\ phaseLog = << >>
    /\ typedLog = << >>

\* ------------------------------------------------------ the workflow graph
Streaming == pc = "streaming" /\ running

\* AgentExecutor "writer": runs the Writer agent on the message and sends its
\* response along the edge writer -> draft_capture.
WriterRun ==
    /\ Streaming
    /\ Len(writerCalls) < MaxRounds
    /\ \E i \in DOMAIN inflight : \E t \in WriterTexts :
        /\ inflight[i].to = "writer"
        /\ inflight' = Append(Remove(inflight, i),
                              Msg("draft_capture", "response", t, <<>>,
                                  NoRequest, 0))
        /\ writerCalls' = Append(writerCalls, inflight[i].text)
    /\ UNCHANGED << state, requestEvents, nextRequestId, events, running,
                    driverVars, reviewerCalls, draftLog, requestLog,
                    decisionLog, outputs >>

\* DraftCapture.capture_draft
CaptureDraft ==
    /\ Streaming
    /\ \E i \in DOMAIN inflight :
        /\ inflight[i].to = "draft_capture"
        /\ state' = CapturedState(state, inflight[i].text)
        /\ inflight' = Append(Remove(inflight, i),
                              Msg("reviewer", "request",
                                  ReviewRequestText(inflight[i].text),
                                  OrEmpty(inflight[i].text), NoRequest, 0))
        /\ draftLog' = Append(draftLog, OrEmpty(inflight[i].text))
    /\ UNCHANGED << requestEvents, nextRequestId, events, running, driverVars,
                    writerCalls, reviewerCalls, requestLog, decisionLog,
                    outputs >>

\* AgentExecutor "reviewer": runs the Reviewer agent and sends its response
\* along the edge reviewer -> review_coordinator.
ReviewerRun ==
    /\ Streaming
    /\ \E i \in DOMAIN inflight : \E t \in ReviewerTexts :
        /\ inflight[i].to = "reviewer"
        /\ inflight' = Append(Remove(inflight, i),
                              Msg("review_coordinator", "response", t,
                                  inflight[i].about, NoRequest, 0))
        /\ reviewerCalls' = Append(reviewerCalls, inflight[i].text)
    /\ UNCHANGED << state, requestEvents, nextRequestId, events, running,
                    driverVars, writerCalls, draftLog, requestLog,
                    decisionLog, outputs >>

\* Where main() is after an exception left "async for event in stream":
\* nothing catches it, so it leaves the while loop and main().
FailurePcSwallowed == "streaming"

FailurePc == "failed"

\* An agent call raises: the exception leaves the stream and main().
AgentFail ==
    /\ Streaming
    /\ \E i \in DOMAIN inflight :
        /\ inflight[i].to \in {"writer", "reviewer"}
        /\ inflight' = Remove(inflight, i)
    /\ running' = FALSE
    /\ pc' = FailurePc
    /\ UNCHANGED << state, requestEvents, nextRequestId, events,
                    pending_responses, pending_requests, cursor, completed,
                    final_output, displayed, phaseLog, typedLog, historyVars >>

\* ReviewCoordinator.handle_reviewer_response
HandleReviewerResponse ==
    /\ Streaming
    /\ \E i \in DOMAIN inflight :
        LET m == inflight[i] IN
        /\ m.to = "review_coordinator"
        /\ m.kind = "response"
        /\ state' = RelayedState(state, m.text)
        /\ inflight' = Remove(inflight, i) \o RelayMessages(state, m.text, m.about)
        /\ requestLog' =
               Append(requestLog,
                      [ request |-> RelayedRequest(state, m.text),
                        critique |-> OrEmpty(m.text),
                        critiqueAbout |-> m.about,
                        latestDraft |-> IF draftLog = << >> THEN NoText
                                        ELSE draftLog[Len(draftLog)],
                        captures |-> Len(draftLog) ])
    /\ UNCHANGED << requestEvents, nextRequestId, events, running, driverVars,
                    writerCalls, reviewerCalls, draftLog, decisionLog,
                    outputs >>

\* RequestInfoExecutor: registers the request and emits a RequestInfoEvent.
RequestInfoRun ==
    /\ Streaming
    /\ \E i \in DOMAIN inflight :
        LET m == inflight[i] IN
        /\ m.to = "request_info"
        /\ requestEvents' = GateAsk(requestEvents, nextRequestId, m.req)
        /\ events' = Append(events,
                            Event("request_info", nextRequestId, m.req, <<>>))
        /\ inflight' = Remove(inflight, i)
    /\ nextRequestId' = nextRequestId + 1
    /\ UNCHANGED << state, running, driverVars, historyVars >>

\* ReviewCoordinator.handle_human_decision
HandleHumanDecision ==
    /\ Streaming
    /\ \E i \in DOMAIN inflight :
        LET m == inflight[i]
            out == DecisionOutputs(state, m.text)
        IN
        /\ m.to = "review_coordinator"
        /\ m.kind = "decision"
        /\ outputs' = outputs \o out
        /\ events' = events \o [k \in DOMAIN out |->
                                   Event("output", 0, NoRequest, out[k])]
        /\ inflight' = Remove(inflight, i) \o DecisionMessages(state, m.text)
        /\ decisionLog' =
               Append(decisionLog,
                      [ data |-> m.text, rid |-> m.rid, request |-> m.req,
                        yielded |-> out,
                        sent |-> DecisionMessages(state, m.text),
                        draft |-> IF draftLog = << >> THEN NoText
                                  ELSE draftLog[Len(draftLog)],
                        requests |-> Len(requestLog) ])
    /\ UNCHANGED << state, requestEvents, nextRequestId, running, driverVars,
                    writerCalls, reviewerCalls, draftLog, requestLog >>

\* No message is left: the stream reports the idle state and ends.
EngineIdle ==
    /\ Streaming
    /\ inflight = << >>
    /\ running' = FALSE
    /\ events' = Append(events,
                        Event(IF DOMAIN requestEvents = {}
                              THEN "status_idle"
                              ELSE "status_idle_with_pending_requests",
                              0, NoRequest, <<>>))
    /\ UNCHANGED << state, inflight, requestEvents, nextRequestId, driverVars,
                    historyVars >>


\* ------------------------------------------------------ visualize_workflow
\* What viz.export(format="svg", ...) may do: return the path, raise
\* ImportError (graphviz is not installed), or raise another Exception.
VizOutcomes == {"exported", "ImportError", "Exception"}

\* The branch of the try statement each outcome ends in; "failed" would be an
\* exception that no except clause catches and that leaves main().
VizBranchImportErrorOnly(outcome) ==
    CASE outcome = "exported" -> "viz_exported"
      [] outcome = "ImportError" -> "viz_import_error"
      [] OTHER -> "failed"

VizBranch(outcome) ==
    CASE outcome = "exported" -> "viz_exported"
      [] outcome = "ImportError" -> "viz_import_error"
      [] OTHER -> "viz_error"

VizBranches == { VizBranch(o) : o \in VizOutcomes }

\* main() calls visualize_workflow(workflow, ...): viz.export inside the try.
VisualizeExport ==
    /\ pc = "viz"
    /\ \E o \in VizOutcomes : pc' = VizBranch(o)
    /\ UNCHANGED << engineVars, events, running, pending_responses,
                    pending_requests, cursor, completed, final_output,
                    displayed, phaseLog, typedLog, historyVars >>

\* The branch prints and returns (the path, or None); main() ignores the value
\* and goes on to the while loop.
VisualizeReturn ==
    /\ pc \in {"viz_exported", "viz_import_error", "viz_error"}
    /\ pc' = "loop"
    /\ UNCHANGED << engineVars, events, running, pending_responses,
                    pending_requests, cursor, completed, final_output,
                    displayed, phaseLog, typedLog, historyVars >>

\* ------------------------------------------------------------------ main()
\* "pending_requests = []" at the top of each pass of the while loop.
FreshPendingRequestsKept(old) == old

FreshPendingRequests(old) == << >>

\* First pass of the while loop: stream = workflow.run_stream(initial_task).
StartRun ==
    /\ pc = "loop"
    /\ ~completed
    /\ ~TruthyDict(pending_responses)
    /\ inflight' = Append(inflight,
                          Msg("writer", "task", INITIAL_TASK, <<>>,
                              NoRequest, 0))
    /\ running' = TRUE
    /\ pending_requests' = FreshPendingRequests(pending_requests)
    /\ pc' = "streaming"
    /\ phaseLog' = Append(phaseLog,
                          [ kind |-> "run_stream", replies |-> EmptyDict,
                            pending |-> DOMAIN requestEvents,
                            observed |-> {} ])
    /\ UNCHANGED << state, requestEvents, nextRequestId, events,
                    pending_responses, cursor, completed, final_output,
                    displayed, typedLog, historyVars >>

\* Ids the driver read from RequestInfoEvents in the phase that just ended.
ObservedIds == { pending_requests[k][1] : k \in DOMAIN pending_requests }

\* Later passes: stream = workflow.send_responses_streaming(pending_responses).
\* The RequestInfoExecutor answers each request named in the dictionary; an id
\* it does not hold is an error raised to the caller.
Resume ==
    /\ pc = "loop"
    /\ ~completed
    /\ TruthyDict(pending_responses)
    /\ LET replies == pending_responses.value
           ids == DOMAIN replies
       IN
       /\ phaseLog' = Append(phaseLog,
                             [ kind |-> "send_responses_streaming",
                               replies |-> replies,
                               pending |-> DOMAIN requestEvents,
                               observed |-> ObservedIds ])
       /\ IF GateAccepts(requestEvents, ids)
          THEN /\ inflight' = inflight \o GateResponses(requestEvents, replies, ids)
               /\ requestEvents' = GateRemaining(requestEvents, ids)
               /\ running' = TRUE
               /\ pc' = "streaming"
          ELSE /\ pc' = "failed"
               /\ UNCHANGED << inflight, requestEvents, running >>
    /\ pending_requests' = FreshPendingRequests(pending_requests)
    /\ UNCHANGED << state, nextRequestId, events, pending_responses, cursor,
                    completed, final_output, displayed, typedLog, historyVars >>

\* One pass of "async for event in stream".
DriverOnEvent ==
    /\ pc = "streaming"
    /\ events # << >>
    /\ LET e == Head(events) IN
       /\ events' = Tail(events)
       /\ CASE e.kind = "request_info" ->
                   /\ pending_requests' =
                          Append(pending_requests, << e.rid, e.req >>)
                   /\ UNCHANGED << final_output, completed >>
            [] e.kind = "output" ->
                   /\ final_output' = Some(e.text)
                   /\ completed' = TRUE
                   /\ UNCHANGED pending_requests
            [] OTHER ->
                   UNCHANGED << pending_requests, final_output, completed >>
    /\ UNCHANGED << engineVars, running, pc, pending_responses, cursor,
                    displayed, phaseLog, typedLog, historyVars >>

\* The else branch after the async for: "if not completed: completed = True".
CompletedAfterQuietEndKept(c) == c

CompletedAfterQuietEnd(c) == TRUE

\* The stream has ended: the if/else after the async for.
StreamEnd ==
    /\ pc = "streaming"
    /\ ~running
    /\ events = << >>
    /\ IF pending_requests # << >> /\ ~completed
       THEN /\ pending_responses' = Some(EmptyDict)
            /\ cursor' = 1
            /\ pc' = "collecting"
            /\ UNCHANGED completed
       ELSE /\ completed' = CompletedAfterQuietEnd(completed)
            /\ pending_responses' = None
            /\ pc' = "loop"
            /\ UNCHANGED cursor
    /\ UNCHANGED << engineVars, events, running, pending_requests,
                    final_output, displayed, phaseLog, typedLog, historyVars >>

\* The key of pending_responses written for the cursor-th pending request.
ReplyKeyByPosition(reqs, k) == k

ReplyKey(reqs, k) == reqs[k][1]

\* One pass of "for request_id, request_data in pending_requests":
\* user_input = input().strip(); pending_responses[request_id] = user_input.
CollectReply ==
    /\ pc = "collecting"
    /\ cursor <= Len(pending_requests)
    /\ \E raw \in RawInputs :
        /\ pending_responses' =
               Some(Put(pending_responses.value,
                        ReplyKey(pending_requests, cursor), Strip(raw)))
        /\ typedLog' = Append(typedLog, raw)
    /\ cursor' = cursor + 1
    /\ pc' = IF cursor = Len(pending_requests) THEN "loop" ELSE "collecting"
    /\ UNCHANGED << engineVars, events, running, pending_requests, completed,
                    final_output, displayed, phaseLog, historyVars >>

\* The loop is left: "if final_output:" prints the final approved content.
Finish ==
    /\ pc = "loop"
    /\ completed
    /\ displayed' = IF TruthyText(final_output) THEN final_output ELSE None
    /\ pc' = "done"
    /\ UNCHANGED << engineVars, events, running, pending_responses,
                    pending_requests, cursor, completed, final_output,
                    phaseLog, typedLog, historyVars >>

Next ==
    \/ VisualizeExport
    \/ VisualizeReturn
    \/ StartRun
    \/ Resume
    \/ WriterRun
    \/ CaptureDraft
    \/ ReviewerRun
    \/ AgentFail
    \/ HandleReviewerResponse
    \/ RequestInfoRun
    \/ HandleHumanDecision
    \/ EngineIdle
    \/ DriverOnEvent
    \/ StreamEnd
    \/ CollectReply
    \/ Finish

Spec == Init /\ [][Next]_vars

\* ------------------------------------------- a caller that breaks the protocol
\* Request ids a caller might name: those issued in a run, and one never issued.
StrayIds == 1..(MaxRounds + 1)

\* A driver that files the human's reply under an id other than the one of
\* the request it has just shown.
CollectStray ==
    /\ pc = "collecting"
    /\ cursor <= Len(pending_requests)
    /\ \E raw \in RawInputs :
       \E id \in StrayIds \ {ReplyKey(pending_requests, cursor)} :
        /\ pending_responses' =
               Some(Put(pending_responses.value, id, Strip(raw)))
        /\ typedLog' = Append(typedLog, raw)
    /\ cursor' = cursor + 1
    /\ pc' = IF cursor = Len(pending_requests) THEN "loop" ELSE "collecting"
    /\ UNCHANGED << engineVars, events, running, pending_requests, completed,
                    final_output, displayed, phaseLog, historyVars >>

GateNext == Next \/ CollectStray

GateSpec == Init /\ [][GateNext]_vars

\* ------------------------------------------ a workflow that falls silent
\* An executor takes a message and sends nothing on, so that the phase ends
\* with neither a request nor an output.
MessageDropped ==
    /\ Streaming
    /\ \E i \in DOMAIN inflight : inflight' = Remove(inflight, i)
    /\ UNCHANGED << state, requestEvents, nextRequestId, events, running,
                    driverVars, historyVars >>

QuietNext == Next \/ MessageDropped

QuietSpec == Init /\ [][QuietNext]_vars

\* --------------------------------------------- a workflow that fans out
\* The first HumanReviewRequest is sent to the RequestInfoExecutor twice, as
\* a workflow with a fan-out edge would do.
FanOut ==
    /\ Streaming
    /\ nextRequestId = 1
    /\ Len(inflight) = 1
    /\ \E i \in DOMAIN inflight :
        /\ inflight[i].to = "request_info"
        /\ inflight' = Append(inflight, inflight[i])
    /\ UNCHANGED << state, requestEvents, nextRequestId, events, running,
                    driverVars, historyVars >>

\* A caller that answers a single pending request, whichever it likes, and
\* resumes the workflow with that one reply.
FanInputs == { APPROVE, <<"f", "i", "x">> }

AnswerOne ==
    /\ pc = "collecting"
    /\ cursor = 1
    /\ \E raw \in FanInputs : \E id \in DOMAIN requestEvents :
        /\ pending_responses' = Some(Put(EmptyDict, id, Strip(raw)))
        /\ typedLog' = Append(typedLog, raw)
    /\ cursor' = Len(pending_requests) + 1
    /\ pc' = "loop"
    /\ UNCHANGED << engineVars, events, running, pending_requests, completed,
                    final_output, displayed, phaseLog, historyVars >>

\* The workflow with the fan-out, driven by that caller in place of the for
\* loop of main().
FanNext ==
    \/ VisualizeExport
    \/ VisualizeReturn
    \/ StartRun
    \/ Resume
    \/ WriterRun
    \/ CaptureDraft
    \/ ReviewerRun
    \/ AgentFail
    \/ HandleReviewerResponse
    \/ RequestInfoRun
    \/ HandleHumanDecision
    \/ EngineIdle
    \/ DriverOnEvent
    \/ StreamEnd
    \/ Finish
    \/ FanOut
    \/ AnswerOne

FanSpec == Init /\ [][FanNext]_vars


\* --------------------------------------------- agents and human that answer
\* The steps of the engine while no agent call raises: every delivered message
\* is handled and the stream then reports idle.
EngineStep ==
    \/ WriterRun
    \/ CaptureDraft
    \/ ReviewerRun
    \/ HandleReviewerResponse
    \/ RequestInfoRun
    \/ HandleHumanDecision
    \/ EngineIdle

\* The steps of main() that wait for nobody.
DriverStep ==
    \/ VisualizeExport
    \/ VisualizeReturn
    \/ StartRun
    \/ Resume
    \/ DriverOnEvent
    \/ StreamEnd
    \/ Finish

LiveNext == EngineStep \/ DriverStep \/ CollectReply

\* main() is one coroutine that runs each step as soon as it can; the agents
\* answer every call and the human answers every input() prompt.
LiveSpec ==
    /\ Init
    /\ [][LiveNext]_vars
    /\ WF_vars(EngineStep)
    /\ WF_vars(DriverStep)
    /\ WF_vars(CollectReply)

\* ============================================================== properties
\* A reply spells the approval token: some whitespace, then the seven letters
\* a-p-p-r-o-v-e each in either case, then some whitespace.
UpperOfApprove == <<"A", "P", "P", "R", "O", "V", "E">>

SpellsApprove(s) ==
    \E a \in 0..Len(s) :
        /\ a + Len(APPROVE) <= Len(s)
        /\ \A i \in 1..a : s[i] \in WS
        /\ \A i \in (a + Len(APPROVE) + 1)..Len(s) : s[i] \in WS
        /\ \A k \in 1..Len(APPROVE) :
               s[a + k] \in {APPROVE[k], UpperOfApprove[k]}

Last(s) == s[Len(s)]

\* C1: whenever handle_human_decision handles a reply that spells "approve",
\* it yields exactly the draft most recently stored by capture_draft (which is
\* the draft shown in the request being answered), sends nothing on, and the
\* run is then in its terminal approved state: that one output, no message in
\* flight and no request pending.
ApproveYieldsCurrentDraft ==
    \A k \in DOMAIN decisionLog :
        LET d == decisionLog[k] IN
        SpellsApprove(d.data) =>
            /\ d.draft # NoText
            /\ d.yielded = << d.draft >>
            /\ d.request.draft_content = d.draft
            /\ d.sent = << >>
            /\ k = Len(decisionLog)
            /\ outputs = << d.draft >>
            /\ inflight = << >>
            /\ DOMAIN requestEvents = {}

\* C1 witness: the second draft, different from the first, is approved with a
\* reply that is not literally "approve".
ApproveSecondDraftReached ==
    /\ Len(decisionLog) = 2
    /\ Len(draftLog) = 2
    /\ draftLog[1] = D1
    /\ draftLog[2] = D2
    /\ decisionLog[2].data # APPROVE
    /\ SpellsApprove(decisionLog[2].data)
    /\ outputs = << D2 >>

\* C2: whenever handle_human_decision handles a reply that is not an approval,
\* it yields nothing and sends exactly one request to the writer whose text
\* contains the draft and the critique of the cycle being answered and the
\* reply; until the next critique is relayed nothing is pending at the human
\* gate and the only message in flight is the one on its way round the
\* writer -> draft_capture -> reviewer -> coordinator path.
ReviseSendsOneWriterRequest ==
    \A k \in DOMAIN decisionLog :
        LET d == decisionLog[k] IN
        ~SpellsApprove(d.data) =>
            /\ d.yielded = << >>
            /\ Len(d.sent) = 1
            /\ d.sent[1].to = "writer"
            /\ d.requests \in DOMAIN requestLog
            /\ d.draft = requestLog[d.requests].latestDraft
            /\ Contains(d.draft, d.sent[1].text)
            /\ Contains(requestLog[d.requests].critique, d.sent[1].text)
            /\ Contains(d.data, d.sent[1].text)
            /\ (k = Len(decisionLog) /\ Len(requestLog) = d.requests
                    /\ pc = "streaming")
                   => /\ DOMAIN requestEvents = {}
                      /\ outputs = << >>
                      /\ Len(inflight) = 1
                      /\ \/ inflight[1].to \in {"writer", "draft_capture",
                                                "reviewer"}
                         \/ /\ inflight[1].to = "review_coordinator"
                            /\ inflight[1].kind = "response"

\* C2 witness: the second cycle (draft D2, critique K1) is answered "fix".
ReviseSecondCycleReached ==
    /\ Len(decisionLog) = 2
    /\ draftLog[1] = D1
    /\ decisionLog[2].draft = D2
    /\ requestLog[2].critique = K1
    /\ decisionLog[2].data = <<"f", "i", "x">>
    /\ Len(inflight) = 1
    /\ inflight[1].to = "writer"

\* C3: the stored iteration (0 while absent) equals the number of critiques
\* relayed so far, whatever other operations ran in between, and the k-th
\* HumanReviewRequest carries iteration k.
IterationCountsRelays ==
    /\ Get(state, "iteration", 0) = Len(requestLog)
    /\ \A k \in DOMAIN requestLog : requestLog[k].request.iteration = k

\* C3 witness: the second critique was relayed, after a second draft had been
\* captured over the state left by the first relay.
IterationKeptAcrossCaptureReached ==
    /\ Len(requestLog) = 2
    /\ Len(decisionLog) = 1
    /\ Len(draftLog) = 2
    /\ draftLog[1] # draftLog[2]
    /\ state["iteration"] = 2
    /\ requestLog[2].request.iteration = 2


\* C4: a run yields at most one output, and once the output is yielded nothing
\* more happens in the workflow or at the console: no Writer or Reviewer call,
\* no message sent, no HumanReviewRequest, no further execution phase and no
\* further question to the human.
OutputOnceAndTerminal ==
    /\ [](Len(outputs) <= 1)
    /\ [][ outputs # << >> =>
             /\ outputs' = outputs
             /\ inflight' = << >>
             /\ writerCalls' = writerCalls
             /\ reviewerCalls' = reviewerCalls
             /\ requestLog' = requestLog
             /\ requestEvents' = requestEvents
             /\ phaseLog' = phaseLog
             /\ typedLog' = typedLog
             /\ pc' \notin {"collecting", "failed"} ]_vars

\* C4 witness: the run ended after a revision round and an approval.
ApprovedRunEndedReached ==
    /\ pc = "done"
    /\ Len(outputs) = 1
    /\ Len(decisionLog) = 2
    /\ Len(phaseLog) = 3

\* C5: every HumanReviewRequest sent carries the most recently captured
\* draft, the critique the Reviewer gave on that very draft, and the number of
\* that critique; the k-th request is about the k-th captured draft, and the
\* request pending at the human gate is the latest one sent.
RequestBelongsToOneCycle ==
    /\ \A k \in DOMAIN requestLog :
           LET r == requestLog[k] IN
           /\ r.latestDraft # NoText
           /\ r.captures = k
           /\ r.request.draft_content = r.latestDraft
           /\ r.critiqueAbout = r.latestDraft
           /\ r.request.reviewer_feedback = r.critique
           /\ r.request.iteration = k
           /\ r.request.prompt = REQUEST_PROMPT
    /\ \A id \in DOMAIN requestEvents :
           /\ requestLog # << >>
           /\ requestEvents[id] = Last(requestLog).request

\* C5 witness: two requests, about different drafts, the second with a critique.
SecondRequestReached ==
    /\ Len(requestLog) = 2
    /\ requestLog[1].request.draft_content = D1
    /\ requestLog[2].request.draft_content = D2
    /\ requestLog[2].request.reviewer_feedback = K1
    /\ DOMAIN requestEvents # {}

\* C6: at most one HumanReviewRequest awaits a decision, and while one does
\* no message is on its way to the Writer or the Reviewer.
AgentBound(m) == m.to \in {"writer", "reviewer"}

AtMostOneOpenCycle ==
    /\ Cardinality(DOMAIN requestEvents) <= 1
    /\ DOMAIN requestEvents # {} =>
           \A i \in DOMAIN inflight : ~AgentBound(inflight[i])
    /\ Cardinality({i \in DOMAIN inflight : AgentBound(inflight[i])}) <= 1

\* C6 witness: the second request is open and the driver is asking the human.
SecondCycleOpenReached ==
    /\ Cardinality(DOMAIN requestEvents) = 1
    /\ Len(requestLog) = 2
    /\ pc = "collecting"

\* C7: the k-th typed line leads to an output if and only if it spells
\* "approve"; any other line, the empty and the whitespace-only line included,
\* leads to one request to the Writer that ends with the trimmed line (nothing,
\* in the empty case); until the Writer has run on that request the run goes
\* on (it has not completed, and fails only if the agent call itself fails).
ApprovalIffSpelled ==
    /\ Len(decisionLog) <= Len(typedLog)
    /\ \A k \in DOMAIN decisionLog :
           LET d == decisionLog[k]
               typed == typedLog[k]
               tail == HUMAN_HEADER \o d.data
           IN
           /\ (d.yielded # << >>) <=> SpellsApprove(typed)
           /\ SpellsApprove(d.data) <=> SpellsApprove(typed)
           /\ ~SpellsApprove(typed) =>
                  /\ Len(d.sent) = 1
                  /\ d.sent[1].to = "writer"
                  /\ d.sent[1].kind = "request"
                  /\ Len(d.sent[1].text) >= Len(tail)
                  /\ SubSeq(d.sent[1].text,
                            Len(d.sent[1].text) - Len(tail) + 1,
                            Len(d.sent[1].text)) = tail
                  /\ (\A i \in DOMAIN typed : typed[i] \in WS) => d.data = << >>
                  /\ (k = Len(decisionLog) /\ Len(writerCalls) = k
                          /\ pc # "failed")
                         => (pc = "streaming" /\ ~completed
                             /\ inflight = d.sent)

\* C7 witness: a whitespace-only line re-invoked the Writer, and then a line
\* spelling "approve" in mixed case with surrounding whitespace was approved.
BlankThenMixedCaseApproveReached ==
    /\ Len(decisionLog) = 2
    /\ typedLog[1] = <<" ", "\t">>
    /\ decisionLog[1].data = << >>
    /\ Len(writerCalls) = 2
    /\ typedLog[2] = <<" ", "A", "p", "p", "R", "O", "V", "E", "\n">>
    /\ Len(outputs) = 1


\* C8: a run that reached its output after n non-approving lines and one
\* approving line invoked the Writer n+1 times (first on the initial task) and
\* the Reviewer n+1 times, sent n+1 HumanReviewRequests numbered 1..n+1 in
\* that order, and its output, also the driver's final output, is the
\* (n+1)-th draft.
ApprovedAfterNRevisions ==
    outputs # << >> =>
        LET n == Len(decisionLog) - 1 IN
        /\ n >= 0
        /\ Len(typedLog) = n + 1
        /\ \A k \in 1..n : ~SpellsApprove(typedLog[k])
        /\ SpellsApprove(typedLog[n + 1])
        /\ Len(writerCalls) = n + 1
        /\ writerCalls[1] = INITIAL_TASK
        /\ Len(reviewerCalls) = n + 1
        /\ Len(draftLog) = n + 1
        /\ Len(requestLog) = n + 1
        /\ \A k \in 1..(n + 1) :
               /\ requestLog[k].request.iteration = k
               /\ requestLog[k].request.draft_content = draftLog[k]
        /\ outputs = << draftLog[n + 1] >>
        /\ ~final_output.none => final_output.value = draftLog[n + 1]
        /\ pc = "done" => ~final_output.none

\* C8 witness: scenario B, one revision and then the approval of draft two.
ScenarioBReached ==
    /\ pc = "done"
    /\ Len(decisionLog) = 2
    /\ draftLog = << D1, D2 >>
    /\ typedLog[1] = <<"f", "i", "x">>
    /\ typedLog[2] = APPROVE
    /\ requestLog[2].request.iteration = 2
    /\ final_output.value = D2

\* C9: every resume phase is started with one reply for each request that was
\* pending when the preceding phase ended, which are the requests the driver
\* observed in that phase; while replies are collected the workflow is at
\* rest, and replies collected so far are those of the requests already asked.
ResumeWithFullBatch ==
    /\ \A k \in DOMAIN phaseLog :
           LET p == phaseLog[k] IN
           /\ (p.kind = "run_stream") <=> (k = 1)
           /\ p.kind = "send_responses_streaming" =>
                  /\ p.pending # {}
                  /\ DOMAIN p.replies = p.pending
                  /\ p.observed = p.pending
    /\ pc = "collecting" =>
           /\ ~running
           /\ inflight = << >>
           /\ events = << >>
           /\ ObservedIds = DOMAIN requestEvents
           /\ DOMAIN pending_responses.value =
                  { pending_requests[k][1] : k \in 1..(cursor - 1) }
    /\ pc = "streaming" => Len(typedLog) = Len(phaseLog) - 1

\* C9 witness: the second resume, answering request 2.
SecondResumeReached ==
    /\ Len(phaseLog) = 3
    /\ phaseLog[3].kind = "send_responses_streaming"
    /\ phaseLog[3].pending = {2}
    /\ DOMAIN phaseLog[3].replies = {2}
    /\ pc = "streaming"

\* C10: an id is answered at most once and only if it was issued; a reply
\* naming an id that is not pending (never issued, or already answered) is
\* rejected as an error, leaving the pending requests, the run's state, the
\* messages in flight and the outputs as they were.
StrayReplyRejected ==
    /\ [](\A j, k \in DOMAIN decisionLog :
              /\ decisionLog[k].rid \in 1..(nextRequestId - 1)
              /\ j # k => decisionLog[j].rid # decisionLog[k].rid)
    /\ [][ ( /\ pc = "loop"
             /\ ~completed
             /\ TruthyDict(pending_responses)
             /\ ~(DOMAIN pending_responses.value \subseteq DOMAIN requestEvents) )
           => ( /\ pc' = "failed"
                /\ requestEvents' = requestEvents
                /\ state' = state
                /\ inflight' = inflight
                /\ outputs' = outputs
                /\ decisionLog' = decisionLog ) ]_vars

\* C10 witness: request 1 was answered, request 2 is pending, and a second
\* reply for request 1 was rejected.
SecondReplyRejectedReached ==
    /\ pc = "failed"
    /\ Len(decisionLog) = 1
    /\ decisionLog[1].rid = 1
    /\ DOMAIN requestEvents = {2}
    /\ DOMAIN pending_responses.value = {1}

\* C11: with several requests pending, answering some of them removes exactly
\* those from the pending requests and leaves every other one pending and
\* unchanged, and the only messages it sends are RequestResponses carrying the
\* answered id, its original request and its reply; requests can be answered
\* in either order.
ResolveLeavesOthersPending ==
    [][ (requestEvents' # requestEvents
            /\ DOMAIN requestEvents' \subseteq DOMAIN requestEvents)
        => LET gone == (DOMAIN requestEvents) \ (DOMAIN requestEvents') IN
           /\ gone = DOMAIN pending_responses.value
           /\ \A x \in DOMAIN requestEvents' :
                  requestEvents'[x] = requestEvents[x]
           /\ Len(inflight') = Len(inflight) + Cardinality(gone)
           /\ \A i \in (Len(inflight) + 1)..Len(inflight') :
                  /\ inflight'[i].to = "review_coordinator"
                  /\ inflight'[i].kind = "decision"
                  /\ inflight'[i].rid \in gone
                  /\ inflight'[i].req = requestEvents[inflight'[i].rid]
                  /\ inflight'[i].text =
                         pending_responses.value[inflight'[i].rid]
           /\ \A x \in gone :
                  \E i \in (Len(inflight) + 1)..Len(inflight') :
                      inflight'[i].rid = x ]_vars

\* C11 witness: requests 1 and 2 were pending together; 2 was answered first
\* while 1 stayed pending, and 1 was answered afterwards.
AnsweredInReverseOrderReached ==
    /\ Len(decisionLog) = 2
    /\ decisionLog[1].rid = 2
    /\ decisionLog[2].rid = 1
    /\ decisionLog[2].request = requestLog[1].request
    /\ Len(phaseLog) = 3
    /\ phaseLog[2].pending = {1, 2}
    /\ 1 \in phaseLog[3].pending

\* C12: when an agent call fails (its request leaves the workflow without a
\* Writer or Reviewer response), main() is left by the exception; from then on
\* no agent is called, no message, request or output is produced, no phase is
\* started and no reply is collected, and the run has no output.
AgentFailureIsFatal ==
    /\ [][ ( /\ inflight # << >>
             /\ \E i \in DOMAIN inflight :
                    /\ AgentBound(inflight[i])
                    /\ inflight' = Remove(inflight, i)
             /\ writerCalls' = writerCalls
             /\ reviewerCalls' = reviewerCalls )
           => pc' = "failed" ]_vars
    /\ [][ pc = "failed" =>
             /\ pc' = "failed"
             /\ inflight' = inflight
             /\ writerCalls' = writerCalls
             /\ reviewerCalls' = reviewerCalls
             /\ requestLog' = requestLog
             /\ requestEvents' = requestEvents
             /\ outputs' = outputs
             /\ phaseLog' = phaseLog
             /\ typedLog' = typedLog ]_vars
    /\ [](pc = "failed" =>
             /\ outputs = << >>
             /\ final_output.none
             /\ displayed.none
             /\ ~completed
             /\ \A i \in DOMAIN inflight : ~AgentBound(inflight[i]))

\* C12 witness: the Reviewer call of the second round failed.
ReviewerFailedInSecondRoundReached ==
    /\ pc = "failed"
    /\ Len(writerCalls) = 2
    /\ Len(reviewerCalls) = 1
    /\ Len(draftLog) = 2
    /\ Len(requestLog) = 1

\* C13: a capture_draft step changes nothing of the stored state but the
\* draft (iteration and critique stay, present or absent, as they were), takes
\* a response without text as the empty draft, and sends exactly one request,
\* to the Reviewer, whose text is the review header followed by the captured
\* draft; it yields nothing, requests nothing and does not fail.
CaptureReplacesOnlyDraft ==
    [][ draftLog' # draftLog =>
          LET d == Last(draftLog') IN
          /\ Len(draftLog') = Len(draftLog) + 1
          /\ Len(inflight) = 1
          /\ inflight[1].to = "draft_capture"
          /\ d = (IF inflight[1].text = NoText THEN << >> ELSE inflight[1].text)
          /\ DOMAIN state' = (DOMAIN state) \cup {"current_draft"}
          /\ \A k \in (DOMAIN state) \ {"current_draft"} : state'[k] = state[k]
          /\ state'["current_draft"] = d
          /\ Len(inflight') = 1
          /\ inflight'[1].to = "reviewer"
          /\ inflight'[1].kind = "request"
          /\ inflight'[1].text = REVIEW_HEADER \o d
          /\ pc' = pc
          /\ requestLog' = requestLog
          /\ requestEvents' = requestEvents
          /\ outputs' = outputs ]_vars

\* C13 witness: a response without text was captured over the state of the
\* first cycle (draft D1, iteration 1, critique K1) and forwarded.
EmptyDraftCapturedReached ==
    /\ draftLog = << D1, << >> >>
    /\ DOMAIN state = {"iteration", "current_draft", "reviewer_feedback"}
    /\ state["current_draft"] = << >>
    /\ state["iteration"] = 1
    /\ state["reviewer_feedback"] = K1
    /\ Len(inflight) = 1
    /\ inflight[1].to = "reviewer"
    /\ inflight[1].text = REVIEW_HEADER

\* C14: when a stream has ended and the driver has seen neither a
\* HumanReviewRequest nor an output in it, the driver sets completed, clears
\* the replies and leaves the loop: the run ends with no final output, nothing
\* displayed and no error, and no further phase is started.
QuietPhase ==
    /\ pc = "streaming"
    /\ ~running
    /\ events = << >>
    /\ pending_requests = << >>
    /\ ~completed

QuietEndCompletesSilently ==
    /\ [][ QuietPhase =>
             /\ completed'
             /\ pc' = "loop"
             /\ pending_responses'.none
             /\ final_output'.none
             /\ phaseLog' = phaseLog ]_vars
    /\ [][ (pc = "loop" /\ completed) =>
             /\ pc' = "done"
             /\ phaseLog' = phaseLog
             /\ typedLog' = typedLog
             /\ displayed' = IF outputs = << >> \/ outputs[1] = << >>
                             THEN None ELSE Some(outputs[1]) ]_vars
    /\ []((pc = "done" /\ outputs = << >>) =>
             /\ final_output.none
             /\ displayed.none
             /\ completed)

\* C14 witness: the second phase, a resume after a revision request, fell
\* silent and the run ended without output.
SilentSecondPhaseEndedReached ==
    /\ pc = "done"
    /\ outputs = << >>
    /\ final_output.none
    /\ Len(phaseLog) = 2
    /\ Len(decisionLog) = 1
    /\ DOMAIN requestEvents = {}

HumanApproved == \E i \in DOMAIN typedLog : SpellsApprove(typedLog[i])

\* C16: when the agents answer every call and the human answers every prompt,
\* a run in which the human types an approving line eventually reaches the
\* approved state (one output yielded) and leaves the driver loop; conversely
\* the loop is never left, and no output is yielded, while every line typed so
\* far is something other than an approval, however many revision rounds have
\* been played: each such reply starts one more round instead.
ApproveEventuallyTerminates ==
    /\ HumanApproved ~> (pc = "done" /\ Len(outputs) = 1 /\ completed)
    /\ [](~HumanApproved => (pc # "done" /\ ~completed /\ outputs = << >>))
    /\ [](~HumanApproved =>
             Len(writerCalls) \in {Len(typedLog), Len(typedLog) + 1})

\* C16 witness: the human asked for a revision in every round but the last,
\* approved then, and the driver loop was left.
ApprovedInLastRoundReached ==
    /\ pc = "done"
    /\ Len(typedLog) = MaxRounds
    /\ \A i \in 1..(MaxRounds - 1) : ~SpellsApprove(typedLog[i])
    /\ SpellsApprove(typedLog[MaxRounds])
    /\ Len(writerCalls) = MaxRounds

\* ---------------------------------------------------------------------- C17
\* C17: the first phase, and only the first, is started with run_stream on the
\* initial task; every later phase is a send_responses_streaming whose reply
\* dictionary has at least one key, also when the reply stored under it is the
\* empty string; whenever the loop is about to start a later phase the reply
\* dictionary is a non-empty dictionary; and the Writer receives the initial
\* task in its first call and in no later call.
InitialTaskSubmittedOnce ==
    /\ \A k \in DOMAIN phaseLog :
           IF k = 1
           THEN /\ phaseLog[k].kind = "run_stream"
                /\ phaseLog[k].replies = EmptyDict
           ELSE /\ phaseLog[k].kind = "send_responses_streaming"
                /\ DOMAIN phaseLog[k].replies # {}
    /\ (pc = "loop" /\ ~completed /\ phaseLog # << >>) =>
           /\ ~pending_responses.none
           /\ DOMAIN pending_responses.value # {}
    /\ \A i \in DOMAIN writerCalls : (writerCalls[i] = INITIAL_TASK) <=> (i = 1)
    /\ Len(phaseLog) >= 1 =>
           Cardinality({ k \in DOMAIN phaseLog :
                             phaseLog[k].kind = "run_stream" }) = 1

\* C17 witness: the human answered the first request with an empty line, the
\* second phase was a resume carrying that empty reply, and the Writer was
\* called a second time with a revision request.
EmptyReplyResumedReached ==
    /\ Len(phaseLog) = 2
    /\ phaseLog[2].kind = "send_responses_streaming"
    /\ \E id \in DOMAIN phaseLog[2].replies : phaseLog[2].replies[id] = <<>>
    /\ Len(writerCalls) = 2
    /\ writerCalls[2] # INITIAL_TASK

\* ---------------------------------------------------------------------- C18
\* C18: request ids are issued in order, the k-th during the k-th phase; the
\* replies submitted at the start of a phase name only the id issued during
\* the phase just before it, so never an id that was not observed; no id is
\* named by the replies of two phases; and while replies are being read they
\* are stored only under the id issued in the phase that just ended.
OneReplyPerObservedId ==
    /\ nextRequestId \in {Len(phaseLog), Len(phaseLog) + 1}
    /\ \A k \in DOMAIN phaseLog :
           /\ DOMAIN phaseLog[k].replies \subseteq ({k - 1} \ {0})
           /\ DOMAIN phaseLog[k].replies \subseteq 1..(nextRequestId - 1)
    /\ \A j, k \in DOMAIN phaseLog :
           j # k => DOMAIN phaseLog[j].replies \cap DOMAIN phaseLog[k].replies = {}
    /\ pc = "collecting" =>
           /\ nextRequestId = Len(phaseLog) + 1
           /\ DOMAIN pending_responses.value \subseteq {Len(phaseLog)}
           /\ Len(pending_requests) = 1
           /\ pending_requests[1][1] = Len(phaseLog)

\* C18 witness: two requests were answered, each in the phase after the one
\* that issued it, and the second resume carried a reply for request 2 only.
EachRequestAnsweredOnceReached ==
    /\ Len(phaseLog) = 3
    /\ DOMAIN phaseLog[2].replies = {1}
    /\ DOMAIN phaseLog[3].replies = {2}
    /\ Len(typedLog) = 2
    /\ nextRequestId = 3

\* ---------------------------------------------------------------------- C19
\* C19: whenever the workflow yielded an output and the driver loop was left,
\* the driver holds that output in final_output and has printed it as the final
\* approved content, whatever the approved draft is, the empty string included.
YieldedOutputRecordedAndDisplayed ==
    (pc = "done" /\ outputs # << >>) =>
        /\ ~final_output.none
        /\ final_output.value = outputs[1]
        /\ ~displayed.none
        /\ displayed.value = outputs[1]

====
